---- MODULE Spec2Model ----
(***************************************************************************)
(* A model of the colorization network's training code:                    *)
(*   src/train.py               TrainingLogger, eval, train                *)
(*   src/colorizers/modified.py ModifiedColorizer.__init__ / forward       *)
(*                                                                         *)
(* Loss values are Python floats; they are modelled as exact fractions     *)
(* <<numerator, denominator>> in lowest terms, +infinity being <<1, 0>>.   *)
(* Network parameters are abstracted to one value of Params; the network's *)
(* tensors live in one storage cell (params) that optimizer.step() writes  *)
(* in place and that net.state_dict() refers to without copying.           *)
(***************************************************************************)
EXTENDS Integers, Sequences, FiniteSets, TLC

\* ------------------------------------------------------------- bounds
MaxEpochs == 2
MaxTrainBatches == 2
MaxTestBatches == 1
MaxParam == 1
MaxEvalCalls == 3
MaxUpdates == 2
MaxDropoutLen == 11
MaxMult == 2
MaxExtra == 2
MaxHW == 9

\* ---------------------------------------------------------- constants
\* get_dataloader's default batch size: every batch holds this many examples.
batch_size == 8

\* the number of color bins the last convolution projects to
NumBins == 313

Params == 0..MaxParam

VARIABLES
    \* --- train()'s inputs
    n_epochs,          \* the epoch count
    len_trainloader,   \* len(trainloader): batches per epoch
    len_testloader,    \* len(testloader): held-out batches
    has_logger,        \* logger is not None
    \* --- the network
    training,          \* net.training: TRUE after net.train(), FALSE after net.eval()
    params,            \* the contents of the network's parameter tensors
    \* --- train()'s locals
    pc,                \* "batch" | "epoch_end" | "done" | "raised" | "caller"
    epoch,             \* the for-loop's epoch, 0-based
    nextBatch,         \* position of enumerate(trainloader)
    i,                 \* the local i: <<>> while unbound, <<k>> once assigned
    best_eval_loss,
    best_model,        \* "None", or "net_tensors": a reference to the live tensors
    exc,               \* the exception that left the function, "none" if none
    \* --- the logger
    train_loss,
    eval_loss,
    \* --- history
    evals,             \* the evaluation losses e_1..e_k returned to train so far
    paramsAtBest,      \* <<p>>: params when best_model was last assigned, else <<>>
    evalReturns,       \* eval's returns to a direct caller: [upd, loss] records
    updates,           \* how many parameter updates that caller has made
    \* --- the network's construction and forward pass
    config,            \* dropoutLayers, numExtraConv2DLayers, channelMultiplier
    input_l,           \* the input's shape <<channels, height, width>>
    net,               \* the blocks in forward order, <<>> before construction
    stage,             \* how many blocks the forward pass has applied
    x                  \* the shape of the tensor the forward pass holds

vars == <<n_epochs, len_trainloader, len_testloader, has_logger, training, params,
          pc, epoch, nextBatch, i, best_eval_loss, best_model, exc,
          train_loss, eval_loss, evals, paramsAtBest, evalReturns, updates,
          config, input_l, net, stage, x>>

netVars == <<config, input_l, net, stage, x>>

\* ------------------------------------------------------------- floats
RECURSIVE GCD(_, _)
GCD(a, b) == IF b = 0 THEN a ELSE GCD(b, a % b)

\* n/d in lowest terms (n >= 0, d > 0)
Rat(n, d) == LET g == GCD(n, d) IN <<n \div g, d \div g>>

Inf == <<1, 0>>

RatAdd(a, b) == Rat(a[1] * b[2] + b[1] * a[2], a[2] * b[2])

RatDivInt(a, k) == Rat(a[1], a[2] * k)

RatLess(a, b) == a[1] * b[2] < b[1] * a[2]

RatMin(a, b) == IF RatLess(b, a) THEN b ELSE a

RECURSIVE RatMinSeq(_)
RatMinSeq(s) == IF s = <<>> THEN Inf ELSE RatMin(Head(s), RatMinSeq(Tail(s)))

\* ---------------------------------------------------- network and loss
\* criterion(net(inputs), labels) for batch b with parameters p and the
\* network in inference mode: a fixed function of the parameters and the batch.
criterion(p, b) == p * b + 1

\* The values loss.item() can take: in training mode the dropout layers make the
\* forward pass random, in inference mode it is a function of the parameters.
LossItems(p, b, mode) ==
    IF mode THEN {criterion(p, b), criterion(p, b) + 1} ELSE {criterion(p, b)}

\* eval's loop: running_loss += loss.item()/batch_size over batches 1..k, with
\* the network in mode `mode`: the values running_loss can end with
RECURSIVE EvalRunningLoss(_, _, _)
EvalRunningLoss(p, k, mode) ==
    IF k = 0 THEN {Rat(0, 1)}
    ELSE {RatAdd(r, Rat(l, batch_size)) :
             r \in EvalRunningLoss(p, k - 1, mode), l \in LossItems(p, k, mode)}

\* eval without its net.eval() call: the mode stays what it was
ModeAfterNetEval_NotSwitched == training

\* net.eval() : the mode the network is left in
ModeAfterNetEval == FALSE

\* eval's return, running_loss/len(dataloader): a float by the integer 0 raises
EvalRaises(len) == len = 0

\* the values eval can return for a source of len > 0 batches
EvalLoss(p, len) ==
    {RatDivInt(r, len) : r \in EvalRunningLoss(p, len, ModeAfterNetEval)}

\* net.state_dict(): a dict of references to the live tensors, not a copy
state_dict == "net_tensors"

\* what a reader of the returned snapshot sees
SnapshotContents == IF best_model = "None" THEN <<>> ELSE <<params>>

\* ---------------------------------------------------------- train()
\* best_eval_loss started at 0 instead of np.inf
InitBestEvalLoss_Zero == Rat(0, 1)

\* line 147
InitBestEvalLoss == Inf

\* the comparison of line 183 turned around
ImprovesBest_Reversed(e, best) == RatLess(best, e)

\* line 183
ImprovesBest(e, best) == RatLess(e, best)

\* the key train-loss entries are logged under
TrainLossKey(idx) == idx + 1

\* the network's construction and forward pass take no part in train()
NetIdle ==
    /\ config = [dropoutLayers |-> <<>>, numExtraConv2DLayers |-> 0,
                 channelMultiplier |-> 1]
    /\ input_l = <<>>
    /\ net = <<>>
    /\ stage = 0
    /\ x = <<>>

\* lines 147-150 and the entry into the first epoch
Init ==
    /\ n_epochs \in 0..MaxEpochs
    /\ len_trainloader \in 0..MaxTrainBatches
    /\ len_testloader \in 0..MaxTestBatches
    /\ has_logger \in BOOLEAN
    /\ params \in Params
    /\ training = TRUE
    /\ best_eval_loss = InitBestEvalLoss
    /\ best_model = "None"
    /\ pc = IF n_epochs = 0 THEN "done" ELSE "batch"
    /\ epoch = 0
    /\ nextBatch = 0
    /\ i = <<>>
    /\ exc = "none"
    /\ train_loss = <<>>
    /\ eval_loss = <<>>
    /\ evals = <<>>
    /\ paramsAtBest = <<>>
    /\ evalReturns = <<>>
    /\ updates = 0
    /\ NetIdle

\* lines 157-176: one iteration of the batch loop
TrainBatch ==
    /\ pc = "batch"
    /\ nextBatch < len_trainloader
    /\ \E newp \in Params, loss \in LossItems(params, nextBatch + 1, training) :
          /\ params' = newp                       \* optimizer.step()
          /\ train_loss' = IF has_logger
                           THEN Append(train_loss,
                                       <<TrainLossKey(nextBatch), Rat(loss, batch_size)>>)
                           ELSE train_loss
    /\ i' = <<nextBatch>>
    /\ nextBatch' = nextBatch + 1
    /\ UNCHANGED <<n_epochs, len_trainloader, len_testloader, has_logger, training,
                   pc, epoch, best_eval_loss, best_model, exc, eval_loss, evals,
                   paramsAtBest, evalReturns, updates, netVars>>

\* the batch loop is exhausted
BatchesDone ==
    /\ pc = "batch"
    /\ nextBatch = len_trainloader
    /\ pc' = "epoch_end"
    /\ UNCHANGED <<n_epochs, len_trainloader, len_testloader, has_logger, training,
                   params, epoch, nextBatch, i, best_eval_loss, best_model, exc,
                   train_loss, eval_loss, evals, paramsAtBest, evalReturns, updates,
                   netVars>>

\* lines 178-185, and the step to the next epoch or to the return
EpochEnd ==
    /\ pc = "epoch_end"
    /\ training' = ModeAfterNetEval               \* eval: net.eval()
    /\ IF EvalRaises(len_testloader)
       THEN /\ pc' = "raised"
            /\ exc' = "ZeroDivisionError"
            /\ UNCHANGED <<epoch, nextBatch, best_eval_loss, best_model, eval_loss,
                           evals, paramsAtBest>>
       ELSE \E e \in EvalLoss(params, len_testloader) :
            /\ evals' = Append(evals, e)
            /\ IF i = <<>>
               THEN \* i+1 with i never assigned (line 180, or 181 without a logger)
                    /\ pc' = "raised"
                    /\ exc' = "UnboundLocalError"
                    /\ UNCHANGED <<epoch, nextBatch, best_eval_loss, best_model,
                                   eval_loss, paramsAtBest>>
               ELSE /\ eval_loss' = IF has_logger
                                    THEN Append(eval_loss, <<i[1] + 1, e>>)
                                    ELSE eval_loss
                    /\ IF ImprovesBest(e, best_eval_loss)
                       THEN /\ best_eval_loss' = e
                            /\ best_model' = state_dict
                            /\ paramsAtBest' = <<params>>
                       ELSE UNCHANGED <<best_eval_loss, best_model, paramsAtBest>>
                    /\ epoch' = epoch + 1
                    /\ nextBatch' = 0
                    /\ pc' = IF epoch + 1 = n_epochs THEN "done" ELSE "batch"
                    /\ exc' = exc
    /\ UNCHANGED <<n_epochs, len_trainloader, len_testloader, has_logger, params, i,
                   train_loss, evalReturns, updates, netVars>>

Next == TrainBatch \/ BatchesDone \/ EpochEnd

Spec == Init /\ [][Next]_vars

\* ------------------------------------------------- a direct caller of eval
\* A caller that holds a network and a batch source and calls eval on them,
\* between calls updating the parameters or switching back to training mode.
InitEval ==
    /\ n_epochs = 0
    /\ len_trainloader = 0
    /\ len_testloader \in 0..MaxTestBatches
    /\ has_logger = FALSE
    /\ params \in Params
    /\ training \in BOOLEAN
    /\ best_eval_loss = InitBestEvalLoss
    /\ best_model = "None"
    /\ pc = "caller"
    /\ epoch = 0
    /\ nextBatch = 0
    /\ i = <<>>
    /\ exc = "none"
    /\ train_loss = <<>>
    /\ eval_loss = <<>>
    /\ evals = <<>>
    /\ paramsAtBest = <<>>
    /\ evalReturns = <<>>
    /\ updates = 0
    /\ NetIdle

\* lines 117-136: one call of eval
CallEval ==
    /\ pc = "caller"
    /\ Len(evalReturns) < MaxEvalCalls
    /\ training' = ModeAfterNetEval
    /\ IF EvalRaises(len_testloader)
       THEN /\ pc' = "raised"
            /\ exc' = "ZeroDivisionError"
            /\ UNCHANGED evalReturns
       ELSE /\ \E e \in EvalLoss(params, len_testloader) :
                  evalReturns' = Append(evalReturns, [upd |-> updates, loss |-> e])
            /\ UNCHANGED <<pc, exc>>
    /\ UNCHANGED <<n_epochs, len_trainloader, len_testloader, has_logger, params,
                   epoch, nextBatch, i, best_eval_loss, best_model, train_loss,
                   eval_loss, evals, paramsAtBest, updates, netVars>>

\* optimizer.step() between two calls
CallerStep ==
    /\ pc = "caller"
    /\ updates < MaxUpdates
    /\ \E newp \in Params : params' = newp
    /\ updates' = updates + 1
    /\ UNCHANGED <<n_epochs, len_trainloader, len_testloader, has_logger, training,
                   pc, epoch, nextBatch, i, best_eval_loss, best_model, exc,
                   train_loss, eval_loss, evals, paramsAtBest, evalReturns, netVars>>

\* net.train() between two calls
CallerTrain ==
    /\ pc = "caller"
    /\ ~training
    /\ training' = TRUE
    /\ UNCHANGED <<n_epochs, len_trainloader, len_testloader, has_logger, params,
                   pc, epoch, nextBatch, i, best_eval_loss, best_model, exc,
                   train_loss, eval_loss, evals, paramsAtBest, evalReturns, updates,
                   netVars>>

NextEval == CallEval \/ CallerStep \/ CallerTrain

SpecEval == InitEval /\ [][NextEval]_vars

\* ------------------------------------------- ModifiedColorizer: the blocks
\* a parameter given as a scalar, applied to each of a block's n layers
Bcast(v, n) == [j \in 1..n |-> v]

\* build_basic_block's arguments with its defaults: stride 1, dilation 1,
\* padding 1, normalization on, ordinary convolutions, no dropout
BlockArgs(channels, kernel_size) ==
    LET n == Len(channels) - 1 IN
    [channels |-> channels, kernel_size |-> Bcast(kernel_size, n),
     stride |-> Bcast(1, n), dilation |-> Bcast(1, n), padding |-> Bcast(1, n),
     norm_layer |-> TRUE, conv_type |-> Bcast("Conv2d", n), dropout |-> 0]

\* layers j..n of a block: convolution, normalization if enabled, activation
RECURSIVE BlockLayers(_, _)
BlockLayers(a, j) ==
    IF j > Len(a.channels) - 1 THEN <<>>
    ELSE <<[kind |-> a.conv_type[j], cin |-> a.channels[j], cout |-> a.channels[j + 1],
            k |-> a.kernel_size[j], s |-> a.stride[j], d |-> a.dilation[j],
            p |-> a.padding[j]]>>
         \o (IF a.norm_layer THEN <<[kind |-> "Norm"]>> ELSE <<>>)
         \o <<[kind |-> "ReLU"]>>
         \o BlockLayers(a, j + 1)

\* the block: its layers, and a dropout layer when the probability is > 0
build_basic_block(a) ==
    BlockLayers(a, 1) \o (IF a.dropout > 0 THEN <<[kind |-> "Dropout"]>> ELSE <<>>)

\* the indices __init__ reads dropoutLayers at: model1 .. model10
DropoutIndices == 0..9

\* Python's list[k] for k >= 0: an IndexError when k >= len(list)
PyIndexOk(list, k) == k < Len(list)

PyIndex(list, k) == list[k + 1]

\* model3 without its stride-2 layer
Model3Stride_NoDownsampling == <<1, 1, 1>>

\* line 25
Model3Stride == <<1, 1, 2>>

\* lines 38-52: a decoder block
DecoderBlock(channels, dropout) ==
    build_basic_block([BlockArgs(channels, 3) EXCEPT
        !.kernel_size = <<4, 3, 3>>, !.stride = <<2, 1, 1>>, !.norm_layer = FALSE,
        !.conv_type = <<"ConvTranspose2d", "Conv2d", "Conv2d">>,
        !.dropout = dropout])

\* lines 15-53: the blocks in the order forward applies them
Blocks(cfg) ==
    LET m == cfg.channelMultiplier
        dl(k) == PyIndex(cfg.dropoutLayers, k)
        dilated == [BlockArgs(<<512 * m, 512 * m, 512 * m, 512 * m>>, 3) EXCEPT
                       !.dilation = Bcast(2, 3), !.padding = Bcast(2, 3)]
        model1 == build_basic_block([BlockArgs(<<1, 64 * m, 64 * m>>, 3) EXCEPT
                       !.stride = <<1, 2>>, !.dropout = dl(0)])
        model2 == build_basic_block([BlockArgs(<<64 * m, 128 * m, 128 * m>>, 3) EXCEPT
                       !.stride = <<1, 2>>, !.dropout = dl(1)])
        model3 == build_basic_block(
                      [BlockArgs(<<128 * m, 256 * m, 256 * m, 256 * m>>, 3) EXCEPT
                       !.stride = Model3Stride, !.dropout = dl(2)])
        model4 == build_basic_block(
                      [BlockArgs(<<256 * m, 512 * m, 512 * m, 512 * m>>, 3) EXCEPT
                       !.dropout = dl(3)])
        model5 == build_basic_block([dilated EXCEPT !.dropout = dl(4)])
        model6 == build_basic_block([dilated EXCEPT !.dropout = dl(5)])
        model7 == build_basic_block(
                      [BlockArgs(<<512 * m, 512 * m, 512 * m, 512 * m>>, 3) EXCEPT
                       !.dropout = dl(6)])
        additional == [j \in 1..cfg.numExtraConv2DLayers |->
                         build_basic_block(BlockArgs(Bcast(512 * m, 4), 3))]
        model8 == DecoderBlock(<<512 * m, 256 * m, 256 * m, 256 * m>>, dl(7))
        model9 == DecoderBlock(<<256 * m, 128 * m, 128 * m, 128 * m>>, dl(8))
        model10 == DecoderBlock(<<128 * m, 64 * m, 64 * m, 64 * m>>, dl(9))
                   \o <<[kind |-> "Conv2d", cin |-> 64 * m, cout |-> NumBins,
                         k |-> 1, s |-> 1, d |-> 1, p |-> 0]>>
    IN <<model1, model2, model3, model4, model5, model6, model7>>
       \o additional \o <<model8, model9, model10>>

\* ------------------------------------------------ shapes through a layer
\* nn.Conv2d's output size along one dimension
ConvOut(h, l) == (h + 2 * l.p - l.d * (l.k - 1) - 1) \div l.s + 1

\* nn.ConvTranspose2d's output size along one dimension
ConvTransposeOut(h, l) == (h - 1) * l.s - 2 * l.p + l.d * (l.k - 1) + 1

\* the shape a layer makes of shape sh; <<>> when it rejects the input
ApplyLayer(l, sh) ==
    IF sh = <<>> THEN <<>>
    ELSE IF l.kind = "Conv2d"
    THEN IF sh[1] # l.cin \/ sh[2] + 2 * l.p < l.d * (l.k - 1) + 1
                          \/ sh[3] + 2 * l.p < l.d * (l.k - 1) + 1
         THEN <<>>
         ELSE <<l.cout, ConvOut(sh[2], l), ConvOut(sh[3], l)>>
    ELSE IF l.kind = "ConvTranspose2d"
    THEN IF sh[1] # l.cin THEN <<>>
         ELSE <<l.cout, ConvTransposeOut(sh[2], l), ConvTransposeOut(sh[3], l)>>
    ELSE sh

RECURSIVE ApplyBlock(_, _)
ApplyBlock(block, sh) ==
    IF block = <<>> THEN sh ELSE ApplyBlock(Tail(block), ApplyLayer(Head(block), sh))

\* ------------------------------------- construction and the forward pass
InitNet ==
    /\ n_epochs = 0
    /\ len_trainloader = 0
    /\ len_testloader = 0
    /\ has_logger = FALSE
    /\ params = 0
    /\ training = TRUE
    /\ best_eval_loss = InitBestEvalLoss
    /\ best_model = "None"
    /\ pc = "new"
    /\ epoch = 0
    /\ nextBatch = 0
    /\ i = <<>>
    /\ exc = "none"
    /\ train_loss = <<>>
    /\ eval_loss = <<>>
    /\ evals = <<>>
    /\ paramsAtBest = <<>>
    /\ evalReturns = <<>>
    /\ updates = 0
    /\ \E len \in 0..MaxDropoutLen, dropout \in {0, 50},
          extra \in 0..MaxExtra, m \in 1..MaxMult :
          config = [dropoutLayers |-> Bcast(dropout, len),
                    numExtraConv2DLayers |-> extra, channelMultiplier |-> m]
    /\ \E h, w \in 1..MaxHW : input_l = <<1, h, w>>
    /\ net = <<>>
    /\ stage = 0
    /\ x = <<>>

trainVars == <<n_epochs, len_trainloader, len_testloader, has_logger, training,
               params, epoch, nextBatch, i, best_eval_loss, best_model,
               train_loss, eval_loss, evals, paramsAtBest, evalReturns, updates>>

\* lines 8-54: ModifiedColorizer(config)
Construct ==
    /\ pc = "new"
    /\ IF \E k \in DropoutIndices : ~PyIndexOk(config.dropoutLayers, k)
       THEN /\ pc' = "raised"
            /\ exc' = "IndexError"
            /\ net' = net
       ELSE /\ pc' = "constructed"
            /\ exc' = exc
            /\ net' = Blocks(config)
    /\ UNCHANGED <<trainVars, config, input_l, stage, x>>

\* line 57: forward is entered, the input is normalized
ForwardStart ==
    /\ pc = "constructed"
    /\ pc' = "forward"
    /\ x' = input_l
    /\ stage' = 0
    /\ UNCHANGED <<trainVars, exc, config, input_l, net>>

\* lines 57-71: the next block is applied
ForwardBlock ==
    /\ pc = "forward"
    /\ stage < Len(net)
    /\ LET out == ApplyBlock(net[stage + 1], x) IN
         IF out = <<>>
         THEN /\ pc' = "raised"
              /\ exc' = "RuntimeError"
              /\ UNCHANGED <<x, stage>>
         ELSE /\ x' = out
              /\ stage' = stage + 1
              /\ UNCHANGED <<pc, exc>>
    /\ UNCHANGED <<trainVars, config, input_l, net>>

\* lines 72-73: the softmax over the channel dimension, and the return
ForwardSoftmax ==
    /\ pc = "forward"
    /\ stage = Len(net)
    /\ pc' = "fwd_done"
    /\ UNCHANGED <<trainVars, exc, config, input_l, net, stage, x>>

NextNet == Construct \/ ForwardStart \/ ForwardBlock \/ ForwardSoftmax

SpecNet == InitNet /\ [][NextNet]_vars

\* ------------------------------------------------------ claims on train
train_returned == pc = "done"

\* C1: the best evaluation loss starts at +infinity, is replaced only by a
\* strictly smaller evaluation loss, never increases from one step to the
\* next, and is the minimum of the evaluation losses e_1..e_k seen so far, so
\* train returns min(e_1..e_n) after its n epochs.
C1_BestIsMinOfEvals ==
    /\ [](pc # "raised" =>
            /\ best_eval_loss = RatMinSeq(evals)
            /\ (train_returned => Len(evals) = n_epochs))
    /\ [][~RatLess(best_eval_loss, best_eval_loss')]_vars

\* C1's case: two epochs, the second evaluation worse than the first and not kept
C1_Witness ==
    /\ train_returned
    /\ Len(evals) = 2
    /\ RatLess(evals[1], evals[2])
    /\ best_eval_loss = evals[1]

\* C2: the snapshot train returns holds the parameters the network had at the
\* end of the epoch that set the best evaluation loss; later epochs' optimizer
\* steps do not change it.
C2_SnapshotIsBestEpochParams ==
    train_returned => SnapshotContents = paramsAtBest

\* C3: every training batch, in every epoch, is processed with the network in
\* training mode.
C3_BatchesRunInTrainingMode ==
    (pc = "batch" /\ nextBatch < len_trainloader) => training

\* C4: with a held-out source of zero batches the evaluation reports an explicit
\* "no data" condition; no division by zero leaves eval or train.
C4_EmptyHeldOutReportsNoData ==
    (len_testloader = 0 /\ pc = "raised") => exc = "NoData"

\* C7 as stated: after 2 epochs on a one-batch held-out source the returned best
\* evaluation loss is the evaluation loss of the final parameters on that batch.
C7_BestIsFinalEval ==
    (train_returned /\ n_epochs = 2 /\ len_testloader = 1)
        => best_eval_loss \in EvalLoss(params, len_testloader)

\* C7 as amended: after 2 epochs on a one-batch held-out source the returned
\* best evaluation loss is the smaller of the first epoch's evaluation loss and
\* the evaluation loss of the final parameters on that batch.
C7_BestIsMinOfFirstAndFinalEval ==
    (train_returned /\ n_epochs = 2 /\ len_testloader = 1)
        => \A e2 \in EvalLoss(params, len_testloader) :
              best_eval_loss = RatMin(evals[1], e2)

\* C7's case: the second epoch's updates made the held-out loss worse
C7_Witness ==
    /\ train_returned /\ n_epochs = 2 /\ len_testloader = 1
    /\ \E e2 \in EvalLoss(params, len_testloader) : RatLess(evals[1], e2)

\* C9: the iteration indices of the logged train losses are strictly increasing
\* over the whole run, and so are those of the logged evaluation losses.
C9_LogKeysStrictlyIncrease ==
    /\ \A a, b \in DOMAIN train_loss : a < b => train_loss[a][1] < train_loss[b][1]
    /\ \A a, b \in DOMAIN eval_loss : a < b => eval_loss[a][1] < eval_loss[b][1]

\* C10: with a train source of zero batches and a non-empty held-out source,
\* train ends by returning or by reporting "no data", with no other error.
C10_EmptyTrainSourceIsDefined ==
    (len_trainloader = 0 /\ len_testloader > 0 /\ pc = "raised") => exc = "NoData"

\* ------------------------------------------------------- claims on eval
EvalReturned == Len(evalReturns') = Len(evalReturns) + 1

SameLossWithoutUpdate ==
    \A a, b \in DOMAIN evalReturns :
        evalReturns[a].upd = evalReturns[b].upd
            => evalReturns[a].loss = evalReturns[b].loss

\* C8 as stated: eval changes no parameter, two calls with no update between
\* them return the same loss, and the network's state after eval is what it
\* was before the call.
C8_EvalLeavesNetworkAsItWas ==
    /\ []SameLossWithoutUpdate
    /\ [][EvalReturned => (params' = params /\ training' = training)]_vars

\* C8 as amended: eval changes no parameter and two calls with no update
\* between them return the same loss; the network is left in inference mode.
C8_EvalKeepsParamsLeavesInference ==
    /\ []SameLossWithoutUpdate
    /\ [][EvalReturned => (params' = params /\ training' = FALSE)]_vars

\* C8's case: two calls with no update between them, the network in training
\* mode before the second
C8_Witness ==
    /\ Len(evalReturns) >= 2
    /\ evalReturns[1].upd = evalReturns[2].upd
    /\ ~training

\* -------------------------------------------------- claims on the network
constructed == pc \in {"constructed", "forward", "fwd_done"}

\* C5: a dropout list whose length is not 10 makes the construction fail.
C5_WrongDropoutLengthFails ==
    constructed => Len(config.dropoutLayers) = 10

RoundUp8(h) == 8 * ((h + 7) \div 8)

====
